---- MODULE Spec2Model ----
(***************************************************************************)
(* Structure-discovery engine for auction sites (smart_analyzer.py).       *)
(*                                                                         *)
(* run_smart_analysis starts one task per target; every task passes the    *)
(* asyncio.Semaphore, runs SmartSiteAnalyzer.analyze_site and releases the *)
(* permit.  analyze_site fetches the home page (_fetch_page, retries=2),   *)
(* discovers listing pages, visits nav_links[:max_pages] (retries=1, a     *)
(* 0.5 s sleep after every visit), extracts URL patterns and generates the *)
(* crawl configuration.                                                    *)
(*                                                                         *)
(* A URL is the record [host, path, slash]: host is the sequence of DNS    *)
(* labels, path the sequence of non-empty path segments, slash tells       *)
(* whether the path text ends in "/".  hrefs are absolute, so urljoin      *)
(* returns the href; the one href urljoin rejects is BadHref.  A fetched   *)
(* body is [kind, anchors]: kind "none" is Python's None, "empty" the      *)
(* empty string, "page" a non-empty body with its <a href> elements.       *)
(***************************************************************************)
EXTENDS Naturals, Integers, Sequences, FiniteSets, TLC

\* ------------------------------------------------------------------ bounds
NumSites == 2            \* largest number of targets in a batch
MaxConcurrentBound == 2  \* max_concurrent ranges over 1..MaxConcurrentBound
MaxPagesBound == 3       \* max_pages ranges over 1..MaxPagesBound

\* ------------------------------------------------- constants of the program
HomeRetries == 2         \* _fetch_page(..., retries: int = 2)
PageRetries == 1         \* _fetch_page(session, nav_url, retries=1)
MaxExamples == 20        \* list(set(all_lot_candidates))[:20]
MaxPatterns == 10        \* patterns[:10]
MaxPatternExamples == 5  \* urls_list[:5]
MaxConfigListings == 5   \* result.listing_pages[:5]
ConfidenceDivisor == 10  \* len(urls_list) / 10

Sites == 1..NumSites

Min(a, b) == IF a < b THEN a ELSE b

Range(f) == {f[i] : i \in DOMAIN f}

Take(seq, k) == SubSeq(seq, 1, Min(k, Len(seq)))

\* --------------------------------------------------------------------- URLs
Url(h, p, sl) == [host |-> h, path |-> p, slash |-> sl]

NoUrl == Url(<<>>, <<>>, FALSE)          \* the empty string

BadHref == Url(<<"[">>, <<>>, FALSE)     \* "http://[" : urljoin raises ValueError

\* the domain of target i, normalised to "https://<host>" by analyze_site
Dominio(i) == Url(<<"site", ToString(i), "com">>, <<>>, FALSE)

\* str(response.url) for a request of url: the same host, or its www. form
\* when the server redirects there; a root path is always rendered "/"
FinalUrls(url, www) ==
    { Url(IF w THEN <<"www">> \o url.host ELSE url.host,
          url.path, IF url.path = <<>> THEN TRUE ELSE url.slash) : w \in www }

\* final_url.rstrip('/') + path
AppendPath(url, seg) == Url(url.host, Append(url.path, seg), FALSE)

CommonPaths == <<"leiloes", "leilao", "catalogo", "imoveis", "veiculos", "lotes", "busca">>

\* domain.replace('www.', ''): every label "www" that is followed by a dot
RECURSIVE StripWww(_)
StripWww(h) ==
    IF Len(h) <= 1 THEN h
    ELSE IF Head(h) = "www" THEN StripWww(Tail(h))
    ELSE <<Head(h)>> \o StripWww(Tail(h))

_is_same_domain(d1, d2) == StripWww(d1) = StripWww(d2)

\* ------------------------------------------------------------ path segments
NumSegs == {"1", "2", "3", "9", "12345"}       \* digits only
LongNumSegs == {"12345"}                       \* at least four digits
HashSegs == {"deadbeef12"}                     \* [a-f0-9]{8,}, not starting with a digit
SlugSegs == {"casa-2", "lote-5"}               \* [a-z0-9]+-[a-z0-9-]+
LotDashSegs == {"lote-5"}                      \* a lot noun followed by "-"
LotNounSegs == {"lote", "lotes", "item", "items", "produto", "produtos", "bem", "bens",
                "imovel", "imoveis", "veiculo", "veiculos", "detalhe", "detalhes",
                "lot", "property", "vehicle"}
NavHrefSegs == {"leiloes", "leilao", "catalogo", "busca", "imovel", "imoveis",
                "veiculo", "veiculos"}

\* anchor texts (lower case) and the keyword tables they hit
NavTexts == {"leiloes", "ver mais"}            \* contains a NAVIGATION_KEYWORDS entry
LotTexts == {"ver lote", "ver mais"}           \* contains a LOT_KEYWORDS entry
SkipTexts == {"login"}                         \* 'home', 'contato', 'login', ...

\* ------------------------------------------------------------------- pages
\* one <a href>: its href, its lower-cased text, whether the parent's text shows
\* a price, and whether it is the first link of a card element
Anchor(h, t, pr, c) == [href |-> h, text |-> t, price |-> pr, card |-> c]

Html(k, a) == [kind |-> k, anchors |-> a]

NoHtml == Html("none", <<>>)
EmptyHtml == Html("empty", <<>>)

\* a truth test that only takes "" for false
FalsyOnlyEmpty(html) == html.kind = "empty"

\* "not html" in Python: None and "" are both falsy
Falsy(html) == html.kind # "page"

\* ---------------------------------------------------------------- helpers
\* the element of a one-element set; The({F(v) : v \in {e}}) is F of the
\* value of e: "v = e; F(v)"
The(S) == CHOOSE r \in S : TRUE

MinOf(S) == CHOOSE i \in S : \A j \in S : i <= j

\* the k-th smallest element of a set of numbers
Nth(S, k) == CHOOSE i \in S : Cardinality({j \in S : j < i}) = k - 1

\* the elements at the positions of P, in their order
AtPositions(seq, P) == [k \in 1..Cardinality(P) |-> seq[Nth(P, k)]]

\* seq without the repetitions of an earlier element:
\* "if x not in out: out.append(x)" for every x of seq
DedupVal(seq) ==
    AtPositions(seq, {i \in 1..Len(seq) : \A j \in 1..(i - 1) : seq[j] # seq[i]})

\* a list that keeps its repetitions
DedupKeepsAll(seq) == seq

Dedup(seq) == The({DedupVal(v) : v \in {seq}})

Hrefs(anchors) == [i \in 1..Len(anchors) |-> anchors[i].href]

\* ---------------------------------------------------------- link discovery
HasNavHref(url) == \E i \in 1..Len(url.path) : url.path[i] \in NavHrefSegs

\* any(re.search(pattern, path) for pattern in LOT_URL_INDICATORS)
IsLotUrl(url) ==
    \E i \in 1..Len(url.path) :
        \/ url.path[i] \in LotNounSegs /\ (i < Len(url.path) \/ url.slash)
        \/ url.path[i] \in LotDashSegs
        \/ url.path[i] \in LongNumSegs

IsNavAnchor(a) == a.text \in NavTexts \/ HasNavHref(a.href)

\* urljoin raises inside _find_navigation_links
NavRaises(html) ==
    \E i \in 1..Len(html.anchors) :
        IsNavAnchor(html.anchors[i]) /\ html.anchors[i].href = BadHref

\* the internal links with a navigation text or href, each once, in page order
_find_navigation_links(html, base_domain) ==
    Dedup(Hrefs(SelectSeq(html.anchors,
                          LAMBDA a : IsNavAnchor(a) /\ _is_same_domain(a.href.host, base_domain))))

\* nav_links followed by the common listing URLs that are not in it yet
WithCommonPaths(links, base) ==
    Dedup(links \o [i \in 1..Len(CommonPaths) |-> AppendPath(base, CommonPaths[i])])

\* urljoin raises inside strategy 1 of _find_lot_links
LotRaises(html) ==
    \E i \in 1..Len(html.anchors) :
        html.anchors[i].text \notin SkipTexts /\ html.anchors[i].href = BadHref

IsLotAnchor(a) == IsLotUrl(a.href) \/ a.text \in LotTexts \/ a.price

\* strategy 1: internal links whose URL, text or price context indicates a lot
KeywordLinks(anchors, base_domain) ==
    Hrefs(SelectSeq(anchors,
                    LAMBDA a : /\ a.text \notin SkipTexts
                               /\ _is_same_domain(a.href.host, base_domain)
                               /\ IsLotAnchor(a)))

\* strategy 2, one card selector: the first link of every card; the
\* try/except around the selector ends its loop at an href urljoin rejects
CardLinks(anchors, base_domain) ==
    LET bad == {i \in 1..Len(anchors) : anchors[i].card /\ anchors[i].href = BadHref}
        tried == IF bad = {} THEN anchors ELSE SubSeq(anchors, 1, MinOf(bad) - 1)
    IN  Hrefs(SelectSeq(tried,
                        LAMBDA a : a.card /\ _is_same_domain(a.href.host, base_domain)))

_find_lot_links(html, base_domain) ==
    Dedup(KeywordLinks(html.anchors, base_domain) \o CardLinks(html.anchors, base_domain))

\* ------------------------------------------------------- pattern extraction
\* a normalisation that finds no placeholder
IsPlaceholderSegNever(seg) == FALSE

IsPlaceholderSeg(seg) == seg \in NumSegs \cup HashSegs \cup SlugSegs

\* the three re.sub calls, applied to one "/segment"
NormSeg(seg) ==
    IF seg \in NumSegs THEN "{id}"
    ELSE IF seg \in HashSegs THEN "{hash}"
    ELSE IF seg \in SlugSegs THEN "{slug}"
    ELSE seg

RECURSIVE PathStr(_)
PathStr(segs) == IF segs = <<>> THEN "" ELSE "/" \o Head(segs) \o PathStr(Tail(segs))

\* the normalised path, the key of path_structures
Structure(url) ==
    PathStr([i \in 1..Len(url.path) |-> NormSeg(url.path[i])])
        \o (IF url.slash THEN "/" ELSE "")

\* the segments before the first placeholder: structure.split('/{')[0]
PrefixSegs(segs) ==
    LET holes == {i \in 1..Len(segs) : IsPlaceholderSeg(segs[i])}
    IN  IF holes = {} THEN segs ELSE SubSeq(segs, 1, MinOf(holes) - 1)

\* an include path that is "/" when the prefix is empty
IncludePathKeepsRoot(url) == PathStr(PrefixSegs(url.path)) \o "/"

\* include_path.rstrip('/') + '/', or "" when the prefix is empty or "/"
IncludePath(url) ==
    IF PrefixSegs(url.path) = <<>> THEN ""
    ELSE PathStr(PrefixSegs(url.path)) \o "/"

\* path_structures.items(): one [structure, urls_list] per key, keys in the
\* order of their first URL, every list in the order of the URLs
GroupsVal(urls) ==
    LET structures == [i \in 1..Len(urls) |-> Structure(urls[i])]
    IN  The({ [k \in 1..Len(keys) |->
                  [structure |-> keys[k],
                   urls_list |-> SelectSeq(urls, LAMBDA u : Structure(u) = keys[k])]]
              : keys \in {DedupVal(structures)} })

Groups(urls) == The({GroupsVal(v) : v \in {urls}})

\* a sort that puts the later of two equally large groups first
SortRankTiesReversed(groups, i) ==
    1 + Cardinality({j \in 1..Len(groups) :
            \/ Len(groups[j].urls_list) > Len(groups[i].urls_list)
            \/ Len(groups[j].urls_list) = Len(groups[i].urls_list) /\ j > i})

\* sorted(..., key=lambda x: -len(x[1])): the position of group i is the number
\* of larger groups, and of equally large groups before it, plus one
SortRank(groups, i) ==
    1 + Cardinality({j \in 1..Len(groups) :
            \/ Len(groups[j].urls_list) > Len(groups[i].urls_list)
            \/ Len(groups[j].urls_list) = Len(groups[i].urls_list) /\ j < i})

SortByCountVal(groups) ==
    [r \in 1..Len(groups) |->
        groups[CHOOSE i \in 1..Len(groups) : SortRank(groups, i) = r]]

SortByCount(groups) == The({SortByCountVal(v) : v \in {groups}})

\* min(count / 5, 1.0), in tenths
ConfidenceSaturatesAtFive(count) == Min(2 * count, 10)

\* confidence is kept in tenths: min(count / 10, 1.0) = Confidence / 10
Confidence(count) == Min(count, ConfidenceDivisor)

LotPattern(g) ==
    [pattern |-> IncludePath(g.urls_list[1]),
     example_urls |-> Take(g.urls_list, MaxPatternExamples),
     count |-> Len(g.urls_list),
     confidence |-> Confidence(Len(g.urls_list))]

\* one LotPattern per group whose include_path is neither empty nor "/"
PatternsOfVal(groups) ==
    The({ [i \in 1..Len(kept) |-> LotPattern(kept[i])]
          : kept \in {SelectSeq(groups, LAMBDA g : IncludePath(g.urls_list[1]) # "")} })

PatternsOf(groups) == The({PatternsOfVal(v) : v \in {groups}})

_extract_patterns(urls) ==
    IF urls = <<>> THEN <<>>
    ELSE The({ Take(patterns, MaxPatterns)
               : patterns \in {PatternsOf(SortByCount(Groups(urls)))} })

\* ------------------------------------------------------- crawl configuration
FallbackPaths == <<"/lote/", "/item/", "/detalhe/">>

\* a list that starts at the URL the caller gave, not at the redirect target
CrawlStartUrlsFromBase(url_final, url_base, listing_pages) ==
    Dedup(<<url_base>> \o Take(listing_pages, MaxConfigListings))

\* [base] and then the first listing pages that are not in the list yet
CrawlStartUrls(url_final, url_base, listing_pages) ==
    Dedup(<<IF url_final # NoUrl THEN url_final ELSE url_base>>
              \o Take(listing_pages, MaxConfigListings))

\* the pattern of every LotPattern, each once; the fallback when there is none
IncludePaths(patterns) ==
    The({ IF paths = <<>> THEN FallbackPaths ELSE paths
          : paths \in {Dedup([i \in 1..Len(patterns) |-> patterns[i].pattern])} })

\* a result that keeps the empty lists of its construction
_generate_configSkipped(res, patterns) == res

\* _generate_config writes the two lists into the result
_generate_config(res, patterns) ==
    [res EXCEPT !.crawl_start_urls = CrawlStartUrls(res.url_final, res.url_base, res.listing_pages),
                !.include_paths = IncludePaths(patterns)]

\* ------------------------------------------------------------- the network
\* what one request can end in: a 200 with a body, a 200 with an empty body,
\* a non-200 status, or one of the exceptions _fetch_page catches
Outcomes == {"ok", "okEmpty", "http403", "http404", "http503",
             "connError", "serverTimeout", "timeout"}


\* last_error after a failed attempt
ErrMsg(o) ==
    CASE o = "http403" -> "HTTP 403 Forbidden - Site bloqueou acesso"
      [] o = "http503" -> "HTTP 503 - Cloudflare/protecao ativa"
      [] o = "http404" -> "HTTP 404"
      [] o = "connError" -> "Conexao falhou"
      [] o = "serverTimeout" -> "Timeout - servidor nao respondeu"
      [] o = "timeout" -> "Timeout na requisicao"

DefaultHomeError == "Nao foi possivel acessar a pagina inicial"

ParseError == "ValueError: Invalid IPv6 URL"

\* bodies a site can serve; h is the host of the site
PlainBody == Html("page", <<>>)

NavBody(h) ==
    Html("page", << Anchor(Url(h, <<>>, TRUE), "ver mais", FALSE, FALSE),
                    Anchor(Url(h, <<"leiloes">>, FALSE), "leiloes", FALSE, FALSE),
                    Anchor(Url(<<"evil", "com">>, <<"lote", "1">>, FALSE), "ver lote", FALSE, FALSE),
                    Anchor(Url(h, <<"conta">>, FALSE), "login", FALSE, FALSE) >>)

LotsBody(h) ==
    Html("page", << Anchor(Url(h, <<"lote", "1">>, FALSE), "", FALSE, FALSE),
                    Anchor(Url(<<"www">> \o h, <<"lote", "2">>, FALSE), "ver lote", FALSE, FALSE),
                    Anchor(Url(h, <<"item", "9">>, FALSE), "", TRUE, TRUE) >>)

RootLotsBody(h) ==
    Html("page", << Anchor(Url(h, <<"12345">>, FALSE), "", FALSE, FALSE) >>)

BadBody(h) ==
    Html("page", << Anchor(Url(h, <<"lote", "3">>, FALSE), "", FALSE, FALSE),
                    Anchor(BadHref, "", FALSE, FALSE) >>)

\* a page that links to the URL the analysis was started with, and to a lot
\* on a host of another domain that has the host of the site with "www."
\* inside it, as in site.www.com for site.com
AliasBody(h) ==
    Html("page", << Anchor(Url(h, <<>>, FALSE), "leiloes", FALSE, FALSE),
                    Anchor(Url(SubSeq(h, 1, Len(h) - 1) \o <<"www", h[Len(h)]>>,
                               <<"lote", "1">>, FALSE), "ver lote", FALSE, FALSE) >>)

\* the web of a run: the outcomes of a request, the bodies
\* of the site with host h, and whether the site redirects to its www. form
FullWeb(h) ==
    [outs |-> Outcomes,
     bodies |-> {PlainBody, NavBody(h), LotsBody(h), RootLotsBody(h), BadBody(h), AliasBody(h)},
     www |-> {FALSE, TRUE}]

BatchWeb(h) ==
    [outs |-> {"ok", "http403", "timeout"},
     bodies |-> {PlainBody, LotsBody(h)},
     www |-> {FALSE}]

\* a home page whose only link goes to /leiloes
LeiloesHomeBody(h) ==
    Html("page", << Anchor(Url(h, <<"leiloes">>, FALSE), "leiloes", FALSE, FALSE) >>)

\* a listing page with three links /lote/{n}
ThreeLotsBody(h) ==
    Html("page", << Anchor(Url(h, <<"lote", "1">>, FALSE), "", FALSE, FALSE),
                    Anchor(Url(h, <<"lote", "2">>, FALSE), "", FALSE, FALSE),
                    Anchor(Url(h, <<"lote", "3">>, FALSE), "", FALSE, FALSE) >>)

\* a site with these two pages, where any request can also end in a 404
ScenarioWeb(h) ==
    [outs |-> {"ok", "http404"},
     bodies |-> {LeiloesHomeBody(h), ThreeLotsBody(h)},
     www |-> {FALSE}]

Web(kind, h) ==
    IF kind = "full" THEN FullWeb(h)
    ELSE IF kind = "scenario" THEN ScenarioWeb(h)
    ELSE BatchWeb(h)

\* -------------------------------------------------------------------- state
VARIABLES
    numTargets,          \* len(sites)
    max_concurrent,      \* run_smart_analysis(max_concurrent)
    max_pages,           \* SmartSiteAnalyzer.max_pages
    permits,             \* the value of the asyncio.Semaphore
    pc,                  \* position of each task
    fetch,               \* the running _fetch_page call of each task
    home_html,           \* locals of analyze_site
    final_url,
    error_msg,
    nav_links,
    idx,                 \* position of the for loop in nav_links[:max_pages]
    visited,
    all_lot_candidates,
    page_html,
    result,              \* the SmartAnalysisResult of each task
    returned,            \* run_smart_analysis has returned
    results,             \* the list it returned
    groups               \* the mapping a grouping function has returned

vars == <<numTargets, max_concurrent, max_pages, permits, pc, fetch, home_html, final_url,
          error_msg, nav_links, idx, visited, all_lot_candidates, page_html, result, returned, results,
          groups>>

locals == <<home_html, final_url, error_msg, nav_links, idx, visited, all_lot_candidates, page_html>>

params == <<numTargets, max_concurrent, max_pages>>

Targets == 1..numTargets

\* no grouping function has run
NoGroups == [by |-> "", map |-> <<>>]

\* SmartAnalysisResult(nome=nome, dominio=dominio)
NewResult(i) ==
    [nome |-> i, dominio |-> Dominio(i), status |-> "pending",
     url_base |-> NoUrl, url_final |-> NoUrl,
     listing_pages |-> <<>>, lot_patterns |-> <<>>, lot_examples |-> {},
     crawl_start_urls |-> <<>>, include_paths |-> <<>>,
     pages_visited |-> 0, links_analyzed |-> 0, error_message |-> ""]

\* outcome is the answer to the latest attempt; after the home fetch it stays
\* on record, the answer to a page is dropped with the "_" of the caller
IdleFetch ==
    [state |-> "idle", url |-> NoUrl, retries |-> 0, attempt |-> 0, last_error |-> "",
     outcome |-> ""]

StartFetch(url, retries) ==
    [state |-> "request", url |-> url, retries |-> retries, attempt |-> 0, last_error |-> "",
     outcome |-> ""]

InitWith(n, mc, mp) ==
    /\ numTargets = n
    /\ max_concurrent = mc
    /\ max_pages = mp
    /\ permits = mc
    /\ pc = [s \in Sites |-> IF s <= n THEN "pending" ELSE "absent"]
    /\ fetch = [s \in Sites |-> IdleFetch]
    /\ home_html = [s \in Sites |-> NoHtml]
    /\ final_url = [s \in Sites |-> NoUrl]
    /\ error_msg = [s \in Sites |-> ""]
    /\ nav_links = [s \in Sites |-> <<>>]
    /\ idx = [s \in Sites |-> 0]
    /\ visited = [s \in Sites |-> {}]
    /\ all_lot_candidates = [s \in Sites |-> <<>>]
    /\ page_html = [s \in Sites |-> NoHtml]
    /\ result = [s \in Sites |-> NewResult(s)]
    /\ returned = FALSE
    /\ results = <<>>
    /\ groups = NoGroups

\* --------------------------------------------- run_smart_analysis: the gate
\* "async with semaphore" is entered and analyze_site runs up to its first
\* await, the home request
\* a gate that still admits a task when no permit is left
HasPermitOffByOne == permits >= 0

HasPermit == permits > 0

Acquire(s) ==
    /\ pc[s] = "pending"
    /\ HasPermit
    /\ permits' = permits - 1
    /\ result' = [result EXCEPT ![s].url_base = Dominio(s)]
    /\ fetch' = [fetch EXCEPT ![s] = StartFetch(Dominio(s), HomeRetries)]
    /\ pc' = [pc EXCEPT ![s] = "home_fetch"]
    /\ UNCHANGED <<params, groups, locals, returned, results>>

\* ------------------------------------------------------------- _fetch_page
\* where the caller continues when _fetch_page returns
\* a fetch that never hands its result to the analysis
AfterFetchRepeats(p) == p

AfterFetch(p) == IF p = "home_fetch" THEN "home_fetched" ELSE "page_fetched"

\* _fetch_page returns (html, url, error) to the caller awaiting it:
\* "home_html, final_url, error_msg = ..." or "page_html, _, _ = ..."
FetchReturn(s, html, url, error, o) ==
    /\ fetch' = [fetch EXCEPT ![s] =
           IF pc[s] = "home_fetch" THEN [IdleFetch EXCEPT !.outcome = o] ELSE IdleFetch]
    /\ pc' = [pc EXCEPT ![s] = AfterFetch(pc[s])]
    /\ IF pc[s] = "home_fetch"
       THEN /\ home_html' = [home_html EXCEPT ![s] = html]
            /\ final_url' = [final_url EXCEPT ![s] = url]
            /\ error_msg' = [error_msg EXCEPT ![s] = error]
            /\ UNCHANGED page_html
       ELSE /\ page_html' = [page_html EXCEPT ![s] = html]
            /\ UNCHANGED <<home_html, final_url, error_msg>>

\* a loop that returns the error of its first failed attempt
FetchFailedKeepsFirst(s, o) ==
    IF fetch[s].attempt < fetch[s].retries
    THEN /\ fetch' = [fetch EXCEPT ![s].state = "retryDelay",
                                   ![s].last_error = IF @ = "" THEN ErrMsg(o) ELSE @,
                                   ![s].outcome = o]
         /\ UNCHANGED <<pc, home_html, final_url, error_msg, page_html>>
    ELSE FetchReturn(s, NoHtml, fetch[s].url,
                     IF fetch[s].last_error = "" THEN ErrMsg(o) ELSE fetch[s].last_error, o)

\* a failed attempt with outcome o: last_error is set; sleep before the retry
\* while attempt < retries, else fall out of the loop and return
\* (None, url, last_error)
FetchFailed(s, o) ==
    IF fetch[s].attempt < fetch[s].retries
    THEN /\ fetch' = [fetch EXCEPT ![s].state = "retryDelay",
                                   ![s].last_error = ErrMsg(o),
                                   ![s].outcome = o]
         /\ UNCHANGED <<pc, home_html, final_url, error_msg, page_html>>
    ELSE FetchReturn(s, NoHtml, fetch[s].url, ErrMsg(o), o)

\* the response to (or the exception of) the request in flight, in the web
\* of the run
FetchRespond(s, kind) ==
    /\ pc[s] \in {"home_fetch", "page_fetch"}
    /\ fetch[s].state = "request"
    /\ \E web \in {Web(kind, Dominio(s).host)} :
          \E o \in web.outs :
             IF o \in {"ok", "okEmpty"}
             THEN \E body \in (IF o = "ok" THEN web.bodies ELSE {EmptyHtml}),
                     url \in FinalUrls(fetch[s].url, web.www) :
                     FetchReturn(s, body, url, "", o)
             ELSE FetchFailed(s, o)
    /\ UNCHANGED <<params, groups, permits, nav_links, idx, visited, all_lot_candidates,
                   result, returned, results>>

\* asyncio.sleep(1) is over: the next attempt
FetchRetry(s) ==
    /\ pc[s] \in {"home_fetch", "page_fetch"}
    /\ fetch[s].state = "retryDelay"
    /\ fetch' = [fetch EXCEPT ![s].state = "request", ![s].attempt = @ + 1]
    /\ UNCHANGED <<params, groups, permits, pc, locals, result, returned, results>>

\* ------------------------------------------------------------ analyze_site
\* an exception handler that sets the status and leaves the message empty
RaiseWithoutMessage(s, msg) ==
    /\ result' = [result EXCEPT ![s].status = "error"]
    /\ pc' = [pc EXCEPT ![s] = "done"]

\* "except Exception as e" around the body of analyze_site
Raise(s, msg) ==
    /\ result' = [result EXCEPT ![s].status = "error", ![s].error_message = msg]
    /\ pc' = [pc EXCEPT ![s] = "done"]

\* "if not home_html": the error result is returned at once
HomeFetched(s) ==
    /\ pc[s] = "home_fetched"
    /\ IF Falsy(home_html[s])
       THEN /\ result' = [result EXCEPT
                   ![s].status = "error",
                   ![s].error_message =
                       IF error_msg[s] # "" THEN error_msg[s] ELSE DefaultHomeError]
            /\ pc' = [pc EXCEPT ![s] = "done"]
       ELSE /\ result' = [result EXCEPT ![s].url_final = final_url[s],
                                        ![s].pages_visited = 1]
            /\ pc' = [pc EXCEPT ![s] = "discover"]
    /\ UNCHANGED <<params, groups, permits, fetch, locals, returned, results>>

\* navigation links of the home page plus the common listing URLs, and the
\* lot links of the home page
Discover(s) ==
    /\ pc[s] = "discover"
    /\ IF NavRaises(home_html[s]) \/ LotRaises(home_html[s])
       THEN /\ Raise(s, ParseError)
            /\ UNCHANGED <<nav_links, idx, visited, all_lot_candidates>>
       ELSE /\ nav_links' = [nav_links EXCEPT ![s] =
                   WithCommonPaths(_find_navigation_links(home_html[s], final_url[s].host),
                                   final_url[s])]
            /\ visited' = [visited EXCEPT ![s] = {final_url[s]}]
            /\ all_lot_candidates' = [all_lot_candidates EXCEPT ![s] =
                   _find_lot_links(home_html[s], final_url[s].host)]
            /\ idx' = [idx EXCEPT ![s] = 1]
            /\ pc' = [pc EXCEPT ![s] = "loop"]
            /\ UNCHANGED result
    /\ UNCHANGED <<params, groups, permits, fetch, home_html, final_url, error_msg, page_html,
                   returned, results>>

\* for nav_url in nav_links[:self.max_pages]
LoopNext(s) ==
    /\ pc[s] = "loop"
    /\ IF idx[s] > Len(Take(nav_links[s], max_pages))
       THEN /\ pc' = [pc EXCEPT ![s] = "extract"]
            /\ UNCHANGED <<idx, visited, fetch>>
       ELSE IF nav_links[s][idx[s]] \in visited[s]
       THEN /\ idx' = [idx EXCEPT ![s] = @ + 1]
            /\ UNCHANGED <<pc, visited, fetch>>
       ELSE /\ visited' = [visited EXCEPT ![s] = @ \cup {nav_links[s][idx[s]]}]
            /\ fetch' = [fetch EXCEPT ![s] = StartFetch(nav_links[s][idx[s]], PageRetries)]
            /\ pc' = [pc EXCEPT ![s] = "page_fetch"]
            /\ UNCHANGED idx
    /\ UNCHANGED <<params, groups, permits, home_html, final_url, error_msg, nav_links,
                   all_lot_candidates, page_html, result, returned, results>>

\* a loop that gives the site up at the first page it cannot fetch
SkipPageAbort(s) ==
    /\ Raise(s, "page")
    /\ UNCHANGED all_lot_candidates

\* a page that could not be fetched is skipped
SkipPage(s) ==
    /\ pc' = [pc EXCEPT ![s] = "rate_sleep"]
    /\ UNCHANGED <<result, all_lot_candidates>>

\* "if page_html": count the page and collect its lot links
PageFetched(s) ==
    /\ pc[s] = "page_fetched"
    /\ IF Falsy(page_html[s])
       THEN SkipPage(s)
       ELSE IF LotRaises(page_html[s])
       THEN /\ result' = [result EXCEPT ![s].pages_visited = @ + 1,
                                        ![s].status = "error",
                                        ![s].error_message = ParseError]
            /\ pc' = [pc EXCEPT ![s] = "done"]
            /\ UNCHANGED all_lot_candidates
       ELSE LET lot_candidates == _find_lot_links(page_html[s], final_url[s].host)
            IN  /\ result' = [result EXCEPT
                       ![s].pages_visited = @ + 1,
                       ![s].listing_pages =
                           IF lot_candidates # <<>>
                           THEN Append(@, nav_links[s][idx[s]]) ELSE @]
                /\ all_lot_candidates' = [all_lot_candidates EXCEPT ![s] = @ \o lot_candidates]
                /\ pc' = [pc EXCEPT ![s] = "rate_sleep"]
    /\ UNCHANGED <<params, groups, permits, fetch, home_html, final_url, error_msg, nav_links, idx,
                   visited, page_html, returned, results>>

\* asyncio.sleep(0.5) is over: the next iteration
RateSleep(s) ==
    /\ pc[s] = "rate_sleep"
    /\ idx' = [idx EXCEPT ![s] = @ + 1]
    /\ pc' = [pc EXCEPT ![s] = "loop"]
    /\ UNCHANGED <<params, groups, permits, fetch, home_html, final_url, error_msg, nav_links,
                   visited, all_lot_candidates, page_html, result, returned, results>>

\* list(set(all_lot_candidates))[:20]: the order of a set is not fixed
ExampleSets(urls) ==
    IF Cardinality(Range(urls)) <= MaxExamples THEN {Range(urls)}
    ELSE {ex \in SUBSET Range(urls) : Cardinality(ex) = MaxExamples}

\* a status that also takes a lot example for a finding
FinalStatusWithExamples(patterns, lot_examples) ==
    IF patterns # <<>> \/ lot_examples # {} THEN "success" ELSE "no_patterns"

\* result.status = "success" if patterns else "no_patterns"
FinalStatus(patterns, lot_examples) == IF patterns # <<>> THEN "success" ELSE "no_patterns"

\* the result after steps 4 and 5 (patterns, examples, crawl configuration,
\* final status), for the examples ex kept of the set
Analysed(res, urls, ex) ==
    The({ [_generate_config([res EXCEPT !.links_analyzed = Len(urls),
                                        !.lot_patterns = patterns,
                                        !.lot_examples = ex],
                            patterns)
           EXCEPT !.status = FinalStatus(patterns, ex)]
          : patterns \in {_extract_patterns(urls)} })

Extract(s) ==
    /\ pc[s] = "extract"
    /\ \E ex \in ExampleSets(all_lot_candidates[s]) :
          result' = [result EXCEPT ![s] = Analysed(result[s], all_lot_candidates[s], ex)]
    /\ pc' = [pc EXCEPT ![s] = "done"]
    /\ UNCHANGED <<params, groups, permits, fetch, locals, returned, results>>

\* analyze_site has returned: the "async with semaphore" block is left
\* a gate whose permit is returned on the normal path only
PermitsAfterFailureLeak(s) == IF result[s].status = "error" THEN permits ELSE permits + 1

PermitsAfterRelease(s) == permits + 1

Release(s) ==
    /\ pc[s] = "done"
    /\ permits' = PermitsAfterRelease(s)
    /\ pc' = [pc EXCEPT ![s] = "released"]
    /\ UNCHANGED <<params, groups, fetch, locals, result, returned, results>>

\* asyncio.gather(*tasks): the results of all tasks, in the order of the sites
\* a collection that leaves the failed sites out
GatheredWithoutFailures ==
    SelectSeq([i \in Targets |-> result[i]], LAMBDA r : r.status # "error")

Gathered == [i \in Targets |-> result[i]]

Gather ==
    /\ ~returned
    /\ \A s \in Targets : pc[s] = "released"
    /\ results' = Gathered
    /\ returned' = TRUE
    /\ UNCHANGED <<params, groups, permits, pc, fetch, locals, result>>

\* ------------------------------------------------------------ specifications
BatchMaxPages == 1

\* a batch of up to NumSites targets against a small web
Init ==
    \E n \in 1..NumSites, mc \in 1..MaxConcurrentBound : InitWith(n, mc, BatchMaxPages)

Next ==
    \/ \E s \in Sites : Acquire(s)
    \/ \E s \in Sites : FetchRespond(s, "batch")
    \/ \E s \in Sites : FetchRetry(s)
    \/ \E s \in Sites : HomeFetched(s)
    \/ \E s \in Sites : Discover(s)
    \/ \E s \in Sites : LoopNext(s)
    \/ \E s \in Sites : PageFetched(s)
    \/ \E s \in Sites : RateSleep(s)
    \/ \E s \in Sites : Extract(s)
    \/ \E s \in Sites : Release(s)
    \/ Gather

Spec == Init /\ [][Next]_vars

\* one target against the full web, for every page budget
InitSite == \E mp \in 1..MaxPagesBound : InitWith(1, 1, mp)

NextSite ==
    \/ \E s \in Sites : Acquire(s)
    \/ \E s \in Sites : FetchRespond(s, "full")
    \/ \E s \in Sites : FetchRetry(s)
    \/ \E s \in Sites : HomeFetched(s)
    \/ \E s \in Sites : Discover(s)
    \/ \E s \in Sites : LoopNext(s)
    \/ \E s \in Sites : PageFetched(s)
    \/ \E s \in Sites : RateSleep(s)
    \/ \E s \in Sites : Extract(s)
    \/ \E s \in Sites : Release(s)
    \/ Gather

SpecSite == InitSite /\ [][NextSite]_vars

\* the event loop runs every task that can continue, and every request ends
\* in a response or in an exception
FairSpec == Spec /\ WF_vars(Next)

\* ------------------------------------------------------------------ batch
TerminalStatus == {"success", "no_patterns", "error", "timeout"}

\* the tasks inside "async with semaphore"
InFlight == {s \in Sites : pc[s] \notin {"absent", "pending", "released"}}

Finished(s) == pc[s] \in {"done", "released"}

\* C1: the batch returns exactly one result per target: as many results as
\* targets, and every target is reported by exactly one of them, whatever
\* the outcome of each site
C1_OneResultPerTarget ==
    returned =>
        /\ Len(results) = numTargets
        /\ \A t \in Targets :
              Cardinality({i \in DOMAIN results : results[i].nome = t}) = 1

\* a batch of several targets has returned with a failed and a successful site
C1_Witness ==
    /\ returned
    /\ numTargets >= 2
    /\ \E i, j \in DOMAIN results :
          results[i].status = "error" /\ results[j].status = "success"

\* C2: at any time at most max_concurrent site analyses are inside the gate
C2_BoundedInFlight == Cardinality(InFlight) <= max_concurrent

\* the gate is full and holds a further task back
C2_Witness ==
    /\ Cardinality(InFlight) = max_concurrent
    /\ \E s \in Sites : pc[s] = "pending"

\* C3: a site that ends in error or timeout gives its permit back and stops
\* no sibling: the permits always add up, and once a site has failed the
\* batch still returns with all permits free and a terminal result for
\* every target
C3_FailureNeverBlocks ==
    /\ [](permits = max_concurrent - Cardinality(InFlight))
    /\ \A s \in Sites :
          (pc[s] = "done" /\ result[s].status \in {"error", "timeout"})
              ~> (/\ returned
                  /\ permits = max_concurrent
                  /\ Len(results) = numTargets
                  /\ \A t \in Targets : results[t].status \in TerminalStatus)

\* with a single permit, a sibling is analysed after another site has failed
C3_Witness ==
    /\ max_concurrent = 1
    /\ \E s, t \in Sites :
          /\ pc[s] = "released" /\ result[s].status = "error"
          /\ pc[t] = "done" /\ result[t].status = "success"

\* ------------------------------------------------------------- one site
\* _fetch_page has returned to analyze_site for the home page
HomeReturned(s) == pc[s] \notin {"absent", "pending", "home_fetch"}

\* the home fetch failed: it returned (None, url, last_error)
HomeFailed(s) == HomeReturned(s) /\ home_html[s].kind = "none"

\* the home fetch was answered with HTTP 200
HomeOk(s) == HomeReturned(s) /\ home_html[s].kind # "none"

TimeoutErrors == {ErrMsg("timeout"), ErrMsg("serverTimeout")}

\* C4: after a failed home fetch the analysis only ends: it visits no page,
\* collects no link, counts no page and writes no pattern and no crawl
\* configuration, and its final status is a failure
C4_HomeFailureStops ==
    \A s \in Sites :
        HomeFailed(s) =>
            /\ pc[s] \in {"home_fetched", "done", "released"}
            /\ fetch[s].state = "idle" /\ fetch[s].url = NoUrl
            /\ visited[s] = {} /\ nav_links[s] = <<>> /\ all_lot_candidates[s] = <<>>
            /\ page_html[s] = NoHtml
            /\ result[s].pages_visited = 0 /\ result[s].links_analyzed = 0
            /\ result[s].lot_patterns = <<>> /\ result[s].lot_examples = {}
            /\ result[s].listing_pages = <<>>
            /\ result[s].crawl_start_urls = <<>> /\ result[s].include_paths = <<>>
            /\ Finished(s) => result[s].status \in {"error", "timeout"}

\* a site whose home page answered 403 on every attempt has ended in error
C4_Witness ==
    \E s \in Sites :
        /\ pc[s] = "released" /\ HomeFailed(s)
        /\ result[s].status = "error"
        /\ result[s].error_message = ErrMsg("http403")

\* C5: the final status of a site whose home fetch failed is "timeout" when
\* the fetch timed out and "error" for every other failure
C5_StatusMatchesOutcome ==
    \A s \in Sites :
        (Finished(s) /\ HomeFailed(s)) =>
            result[s].status =
                IF error_msg[s] \in TimeoutErrors THEN "timeout" ELSE "error"

\* C6: a site whose home fetch was answered ok ends in success or
\* no_patterns, never in error or timeout
C6_ErrorOnlyFromHome ==
    \A s \in Sites :
        (Finished(s) /\ HomeOk(s)) => result[s].status \in {"success", "no_patterns"}

IsPrefix(a, b) == Len(a) <= Len(b) /\ SubSeq(b, 1, Len(a)) = a

\* the lot links of a page that strategy 1 of _find_lot_links takes for their URL
UrlLotLinks(html, base_domain) ==
    {html.anchors[i].href : i \in {j \in 1..Len(html.anchors) :
        /\ html.anchors[j].text \notin SkipTexts
        /\ _is_same_domain(html.anchors[j].href.host, base_domain)
        /\ IsLotUrl(html.anchors[j].href)}}

\* C7: a page after the home page that cannot be fetched is skipped: the
\* step leaves the result and the candidates as they are and goes on to the
\* next page; every page of the queue has been tried when extraction
\* starts; candidates once collected are kept, a fetched page adds its own,
\* and extraction receives all of them
C7_PageFailureNonFatal ==
    /\ [][\A s \in Sites :
            (pc[s] = "page_fetched" /\ Falsy(page_html[s]) /\ pc'[s] # pc[s]) =>
                /\ pc'[s] = "rate_sleep"
                /\ result'[s] = result[s]
                /\ all_lot_candidates'[s] = all_lot_candidates[s]]_vars
    /\ [][\A s \in Sites :
            (pc[s] = "rate_sleep" /\ pc'[s] # pc[s]) =>
                pc'[s] = "loop" /\ idx'[s] = idx[s] + 1]_vars
    /\ [][\A s \in Sites :
            /\ IsPrefix(all_lot_candidates[s], all_lot_candidates'[s])
            /\ (pc[s] = "page_fetched" /\ pc'[s] = "rate_sleep" /\ ~Falsy(page_html[s])) =>
                  UrlLotLinks(page_html[s], final_url[s].host)
                      \subseteq Range(all_lot_candidates'[s])]_vars
    /\ [](\A s \in Sites :
            pc[s] = "extract" =>
                \A i \in 1..Min(max_pages, Len(nav_links[s])) : nav_links[s][i] \in visited[s])
    /\ [](\A s \in Sites :
            (Finished(s) /\ result[s].status \in {"success", "no_patterns"}) =>
                result[s].links_analyzed = Len(all_lot_candidates[s]))

\* the first page of the queue failed, the second was fetched and gave the
\* lots of a successful analysis
C7_Witness ==
    \E s \in Sites :
        /\ pc[s] = "done" /\ result[s].status = "success"
        /\ Cardinality(visited[s]) = 3
        /\ result[s].pages_visited = 2
        /\ result[s].listing_pages = <<nav_links[s][2]>>

\* C8: a site fetches at most max_pages pages, the home page included, and
\* counts at most max_pages pages visited
C8_PageBudget ==
    \A s \in Sites :
        /\ result[s].pages_visited <= max_pages
        /\ Cardinality(visited[s]) <= max_pages

C10_NoRetryOnHttpError ==
    \A s \in Sites :
        fetch[s].state = "retryDelay" =>
            fetch[s].last_error \notin {ErrMsg("http403"), ErrMsg("http404")}

\* ------------------------------------------------------------- _fetch_page
\* the outcomes that are not an HTTP 200
FailureOutcomes == Outcomes \ {"ok", "okEmpty"}

\* C11: a fetch makes at most `retries` retries after its first attempt and
\* never retries after a 200; it gives up only when the last allowed attempt
\* has failed, and the failed home fetch returns to its caller, without an
\* exception, the error of the last attempt made
C11_BoundedRetriesLastError ==
    /\ [](\A s \in Sites :
            /\ fetch[s].attempt <= fetch[s].retries
            /\ fetch[s].retries <= HomeRetries
            /\ fetch[s].state = "retryDelay" =>
                  /\ fetch[s].outcome \in FailureOutcomes
                  /\ fetch[s].attempt < fetch[s].retries
            /\ (HomeReturned(s) /\ fetch[s].outcome \in {"ok", "okEmpty"}) => HomeOk(s)
            /\ HomeFailed(s) =>
                  /\ fetch[s].outcome \in FailureOutcomes
                  /\ error_msg[s] = ErrMsg(fetch[s].outcome)
            /\ (HomeFailed(s) /\ pc[s] = "home_fetched") => result[s].status = "pending")
    /\ [][\A s \in Sites :
            (fetch[s].state = "request" /\ fetch'[s].state = "idle") =>
                \/ pc'[s] = "home_fetched" /\ HomeOk(s)'
                \/ pc'[s] = "page_fetched" /\ ~Falsy(page_html'[s])
                \/ pc'[s] = "page_fetched" /\ page_html'[s] = EmptyHtml
                \/ fetch[s].attempt = fetch[s].retries]_vars

\* the home fetch has given up on a 503 after its last retry
C11_Witness ==
    \E s \in Sites :
        /\ pc[s] = "home_fetched" /\ HomeFailed(s)
        /\ fetch[s].outcome = "http503"
        /\ error_msg[s] = ErrMsg("http503")

\* ------------------------------------------- extraction and configuration
\* Steps 4 and 5 of analyze_site on their own: the analysis stands before
\* _extract_patterns with the candidates and listing pages that a larger
\* site leaves there.
MaxUrlsLen == 3          \* free lists of candidates have up to MaxUrlsLen URLs
MaxRepeat == 11          \* one lot URL is collected up to MaxRepeat times
MaxFillers == 11         \* up to MaxFillers URLs of different sections
MaxListings == 6         \* up to MaxListings listing pages gave lots

RunMaxPages == 8         \* SmartSiteAnalyzer(timeout=45, max_pages=8)

\* lot candidates of the site with host h: "/lote/1", "/lote/2", "/item/9",
\* "/12345", "/lote/1/fotos" and "/"
UrlPool(h) ==
    { Url(h, <<"lote", "1">>, FALSE), Url(h, <<"lote", "2">>, FALSE),
      Url(h, <<"item", "9">>, FALSE), Url(h, <<"12345">>, FALSE),
      Url(h, <<"lote", "1", "fotos">>, FALSE), Url(h, <<>>, TRUE) }

RECURSIVE SeqsUpTo(_, _)
SeqsUpTo(S, n) ==
    IF n = 0 THEN {<<>>}
    ELSE LET shorter == SeqsUpTo(S, n - 1)
         IN  shorter \cup {Append(q, x) : q \in {r \in shorter : Len(r) = n - 1}, x \in S}

\* the same lot URL found on k pages
Repeated(h, k) == [i \in 1..k |-> Url(h, <<"lote", "1">>, FALSE)]

\* j URLs "/c<i>/1" of j different sections
Fillers(h, j) == [i \in 1..j |-> Url(h, <<"c" \o ToString(i), "1">>, FALSE)]

BulkLists(h) ==
    {<<>>} \cup {Repeated(h, k) : k \in 9..MaxRepeat}
           \cup {Fillers(h, j) : j \in 10..MaxFillers}

\* the candidates before step 4: a free list, or a bulk between two URLs
CandidateLists(h) ==
    SeqsUpTo(UrlPool(h), MaxUrlsLen)
        \cup {pre \o bulk \o post : pre \in SeqsUpTo(UrlPool(h), 1),
                                    bulk \in BulkLists(h),
                                    post \in SeqsUpTo(UrlPool(h), 1)}

\* analyze_site of target 1 before step 4: the home page redirected to "/",
\* the common listing pages were all tried, the first n of them gave lots
InitExtract ==
    \E urls \in CandidateLists(Dominio(1).host), n \in 0..MaxListings :
        LET base == Url(Dominio(1).host, <<>>, TRUE)
            pages == WithCommonPaths(<<>>, base)
        IN  /\ n <= Len(urls)
            /\ numTargets = 1
            /\ max_concurrent = 1
            /\ max_pages = RunMaxPages
            /\ permits = 0
            /\ pc = [s \in Sites |-> IF s = 1 THEN "extract" ELSE "absent"]
            /\ fetch = [s \in Sites |-> IdleFetch]
            /\ home_html = [s \in Sites |-> IF s = 1 THEN PlainBody ELSE NoHtml]
            /\ final_url = [s \in Sites |-> IF s = 1 THEN base ELSE NoUrl]
            /\ error_msg = [s \in Sites |-> ""]
            /\ nav_links = [s \in Sites |-> IF s = 1 THEN pages ELSE <<>>]
            /\ idx = [s \in Sites |-> IF s = 1 THEN Len(pages) + 1 ELSE 0]
            /\ visited = [s \in Sites |-> IF s = 1 THEN {base} \cup Range(pages) ELSE {}]
            /\ all_lot_candidates = [s \in Sites |-> IF s = 1 THEN urls ELSE <<>>]
            /\ page_html = [s \in Sites |-> NoHtml]
            /\ result = [s \in Sites |->
                   IF s = 1
                   THEN [NewResult(1) EXCEPT !.url_base = Dominio(1),
                                             !.url_final = base,
                                             !.pages_visited = 1 + n,
                                             !.listing_pages = Take(pages, n)]
                   ELSE NewResult(s)]
            /\ returned = FALSE
            /\ results = <<>>
            /\ groups = NoGroups

NextExtract ==
    \/ \E s \in Sites : Extract(s)
    \/ \E s \in Sites : Release(s)
    \/ Gather

SpecExtract == InitExtract /\ [][NextExtract]_vars

\* steps 4 and 5 have run
Configured(s) == Finished(s) /\ result[s].status \in {"success", "no_patterns"}


NoRepeats(seq) == \A i, j \in 1..Len(seq) : i # j => seq[i] # seq[j]

\* the position of the first x in seq
FirstPos(seq, x) == MinOf({k \in 1..Len(seq) : seq[k] = x})

\* C12: crawl_start_urls and include_paths have at most 5 entries each
C12_ConfigCaps ==
    \A s \in Sites :
        Configured(s) =>
            /\ Len(result[s].crawl_start_urls) <= 5
            /\ Len(result[s].include_paths) <= 5

\* C13: a result with status success has a crawl start URL and an include
\* path; a completed analysis without a pattern has the fallback include
\* paths
C13_SuccessHasConfig ==
    \A s \in Sites :
        Finished(s) =>
            /\ result[s].status = "success" =>
                  /\ result[s].crawl_start_urls # <<>>
                  /\ result[s].include_paths # <<>>
            /\ result[s].status = "no_patterns" =>
                  /\ result[s].crawl_start_urls # <<>>
                  /\ result[s].include_paths = FallbackPaths

\* a site has ended in success with a listing page and its own include paths
C13_Witness ==
    \E s \in Sites :
        /\ Finished(s) /\ result[s].status = "success"
        /\ result[s].include_paths = <<"/lote/", "/item/">>
        /\ Len(result[s].crawl_start_urls) = 2

\* C14: crawl_start_urls starts with the final URL of the home page, goes on
\* with listing pages in the order of their discovery, the first ones all
\* included, and holds no URL twice
C14_CrawlStartOrder ==
    \A s \in Sites :
        Configured(s) =>
            LET c == result[s].crawl_start_urls
                lp == result[s].listing_pages
            IN  /\ c # <<>>
                /\ result[s].url_final = final_url[s] /\ final_url[s] # NoUrl
                /\ c[1] = final_url[s]
                /\ NoRepeats(c)
                /\ \A i \in 2..Len(c) : c[i] \in Range(lp)
                /\ \A i, j \in 2..Len(c) : i < j => FirstPos(lp, c[i]) < FirstPos(lp, c[j])
                /\ \A k \in 1..Min(Len(lp), MaxConfigListings) : lp[k] \in Range(c)

\* the final URL and five listing pages, of six that gave lots
C14_Witness ==
    \E s \in Sites :
        /\ Configured(s)
        /\ Len(result[s].listing_pages) = 6
        /\ Len(result[s].crawl_start_urls) = 6
        /\ result[s].crawl_start_urls[1] # result[s].url_base

CountWithPath(urls, p) == Cardinality({k \in 1..Len(urls) : IncludePath(urls[k]) = p})

\* the number of URLs of urls that have the structure st
CountWithStructure(urls, st) == Cardinality({k \in 1..Len(urls) : Structure(urls[k]) = st})

\* the position in urls of the first URL with the structure st
FirstWithStructure(urls, st) == MinOf({k \in 1..Len(urls) : Structure(urls[k]) = st})

\* C16: the patterns are one per include path, the count of each is the
\* number of candidate URLs with that include path, and no candidate URL
\* gives no pattern
C16_OnePatternPerKey ==
    \A s \in Sites :
        Configured(s) =>
            LET ps == result[s].lot_patterns
                urls == all_lot_candidates[s]
            IN  /\ urls = <<>> => ps = <<>>
                /\ \A i, j \in 1..Len(ps) : i # j => ps[i].pattern # ps[j].pattern
                /\ \A i \in 1..Len(ps) : ps[i].count = CountWithPath(urls, ps[i].pattern)

\* C17: the patterns are in the order of their counts, largest first, equal
\* counts in the order of the first URL of each; they are at most 10, and
\* every group left out ranks after every group kept
C17_RankedTopTen ==
    \A s \in Sites :
        Configured(s) =>
            LET ps == result[s].lot_patterns
                urls == all_lot_candidates[s]
                st(i) == Structure(ps[i].example_urls[1])
                first(i) == FirstWithStructure(urls, st(i))
                keys == {Structure(u) : u \in {v \in Range(urls) : v.path # <<>> /\ ~IsPlaceholderSeg(v.path[1])}}
                out == {st(i) : i \in 1..Len(ps)}
            IN  /\ Len(ps) <= 10
                /\ Len(ps) = Min(10, Cardinality(keys))
                /\ out \subseteq keys
                /\ \A i \in 1..Len(ps) : ps[i].count = CountWithStructure(urls, st(i))
                /\ \A i, j \in 1..Len(ps) :
                      i < j => \/ ps[i].count > ps[j].count
                               \/ ps[i].count = ps[j].count /\ first(i) < first(j)
                /\ \A k \in keys \ out : \A i \in 1..Len(ps) :
                      \/ ps[i].count > CountWithStructure(urls, k)
                      \/ /\ ps[i].count = CountWithStructure(urls, k)
                         /\ first(i) < FirstWithStructure(urls, k)

\* ten patterns of more than ten groups, a group of two URLs first and
\* groups of one URL after it
C17_Witness ==
    \E s \in Sites :
        /\ Configured(s)
        /\ Len(result[s].lot_patterns) = 10
        /\ Cardinality({Structure(u) : u \in Range(all_lot_candidates[s])}) > 10
        /\ result[s].lot_patterns[1].count = 2
        /\ result[s].lot_patterns[2].count = 1
        /\ result[s].lot_patterns[3].count = 1

C20_DisjointClasses ==
    \A s \in Sites :
        pc[s] = "loop" /\ home_html[s].kind = "page" =>
            Range(_find_navigation_links(home_html[s], final_url[s].host))
                \cap Range(_find_lot_links(home_html[s], final_url[s].host)) = {}


\* C21: pattern extraction on any list with the same set of URLs as the
\* candidates gives the same patterns in the same order
C21_SameSetSameRanking ==
    \A s \in Sites :
        Configured(s) =>
            \A other \in SeqsUpTo(UrlPool(Dominio(s).host), MaxUrlsLen) :
                Range(other) = Range(all_lot_candidates[s]) =>
                    _extract_patterns(other) = result[s].lot_patterns

\* C22: a page fetch starts only when no fetch of the site is running and a
\* delay has been taken since the visit before it. The delay of a visit is
\* the last step of its loop iteration, so a page fetch has a delay before it
\* unless it is the first of the loop, when visited holds the home page alone
C22_DelayBetweenVisits ==
    [][\A s \in Sites :
          pc[s] # "page_fetch" /\ pc'[s] = "page_fetch" =>
              /\ fetch[s].state = "idle"
              /\ visited[s] # {final_url[s]}]_vars


\* a result that is not pending and has an error message exactly when its
\* status is error or timeout
StatusAndMessageAgree(r) ==
    /\ r.status \in TerminalStatus
    /\ r.error_message # "" <=> r.status \in {"error", "timeout"}

NextScenario ==
    \/ \E s \in Sites : Acquire(s)
    \/ \E s \in Sites : FetchRespond(s, "scenario")
    \/ \E s \in Sites : FetchRetry(s)
    \/ \E s \in Sites : HomeFetched(s)
    \/ \E s \in Sites : Discover(s)
    \/ \E s \in Sites : LoopNext(s)
    \/ \E s \in Sites : PageFetched(s)
    \/ \E s \in Sites : RateSleep(s)
    \/ \E s \in Sites : Extract(s)
    \/ \E s \in Sites : Release(s)
    \/ Gather

SpecScenario == InitSite /\ [][NextScenario]_vars

\* the analysis of s has ended after this run: the home page linked to
\* /leiloes only, /leiloes gave the three lot links, and no other page loaded
ScenarioRun(s) ==
    /\ Finished(s)
    /\ home_html[s] = LeiloesHomeBody(Dominio(s).host)
    /\ result[s].pages_visited = 2
    /\ result[s].listing_pages = <<Url(Dominio(s).host, <<"leiloes">>, FALSE)>>
    /\ all_lot_candidates[s] = Hrefs(ThreeLotsBody(Dominio(s).host).anchors)

\* C27: the run of the end-to-end scenario ends in success with the include
\* path /lote/ alone and with the home URL and the /leiloes URL among the
\* crawl start URLs
C27_EndToEnd ==
    \A s \in Sites :
        ScenarioRun(s) =>
            /\ result[s].status = "success"
            /\ result[s].include_paths = <<"/lote/">>
            /\ final_url[s] \in Range(result[s].crawl_start_urls)
            /\ Url(Dominio(s).host, <<"leiloes">>, FALSE) \in Range(result[s].crawl_start_urls)

\* the scenario has run with a page budget that let other listing URLs be
\* probed, and they failed
C27_Witness ==
    \E s \in Sites :
        /\ ScenarioRun(s)
        /\ max_pages > 1
        /\ Cardinality(visited[s]) > 2
        /\ result[s].lot_patterns # <<>>


\* the registrable domain of a host under a one-label suffix such as com
Registrable(h) == SubSeq(h, Len(h) - 1, Len(h))

\* C28: every link taken from a page, navigation link or lot link, is on the
\* registrable domain of the final URL of the home page
C28_InternalLinksOnly ==
    \A s \in Sites :
        pc[s] \in {"loop", "page_fetch", "page_fetched", "rate_sleep", "extract"} =>
            \A u \in Range(nav_links[s]) \cup Range(all_lot_candidates[s]) :
                Registrable(u.host) = Registrable(final_url[s].host)

\* C29: a page fetch starts only for a URL that was not requested before in
\* the analysis: not the URL the analysis was started with, and no URL of
\* visited (the final URL of the home page and the pages fetched so far)
C29_NoRevisit ==
    [][\A s \in Sites :
          pc[s] # "page_fetch" /\ pc'[s] = "page_fetch" =>
              fetch'[s].url \notin visited[s] \cup {result[s].url_base}]_vars


\* C30: every fetch makes a bounded number of attempts, every analysis visits
\* a bounded number of pages, every target is admitted through the gate, and
\* the batch ends: it has returned, every target has a terminal status and
\* every permit is free
C30_Terminates ==
    /\ [](\A s \in Sites :
             /\ fetch[s].attempt <= fetch[s].retries
             /\ fetch[s].retries <= HomeRetries
             /\ idx[s] <= Len(Take(nav_links[s], max_pages)) + 1
             /\ result[s].pages_visited <= 1 + max_pages)
    /\ \A s \in Sites : (pc[s] = "pending") ~> (pc[s] # "pending")
    /\ <>[](/\ returned
            /\ permits = max_concurrent
            /\ \A t \in Targets :
                  pc[t] = "released" /\ result[t].status \in TerminalStatus)

\* a batch of two targets behind a gate of one permit has ended
C30_Witness ==
    /\ returned
    /\ numTargets = 2
    /\ max_concurrent = 1
    /\ permits = 1
    /\ \A t \in Targets : pc[t] = "released"


\* ---------------------------------------------------------------- grouping
MaxResults == 2          \* the grouped list has up to MaxResults results

\* the include paths and lot URL patterns of the model, in the order of
\* sorted()
PathOrder == <<"/imovel/", "/item/", "/lote/", "/lotes/">>

SimplifiedOrder == <<"imovel", "item", "lote", "outro">>

\* sorted(seq), for a list of elements of order
RECURSIVE SortedList(_, _)
SortedList(order, seq) ==
    IF order = <<>> THEN <<>>
    ELSE SelectSeq(seq, LAMBDA x : x = Head(order)) \o SortedList(Tail(order), seq)

\* ','.join(seq)
RECURSIVE Join(_)
Join(seq) ==
    IF seq = <<>> THEN ""
    ELSE IF Len(seq) = 1 THEN seq[1]
    ELSE seq[1] \o "," \o Join(Tail(seq))

\* the result of one site as the grouping functions read it
SiteResult(st, pf, ip, lp) ==
    [status |-> st, platform |-> pf, include_paths |-> ip, lot_url_patterns |-> lp]

\* results of analysed sites: the include paths of a success are the paths of
\* its lot URL patterns, in any order (list(set(...))); a failed site has
\* none, and has a platform only if it failed after the detection
SitePool ==
    { SiteResult("success", pf, f[1], f[2]) :
          pf \in {"lel.br", "custom"},
          f \in { << <<"/lote/">>, <<"/lote/{id}">> >>,
                  << <<"/lote/", "/item/">>, <<"/lote/{id}", "/item/{id}">> >>,
                  << <<"/item/", "/lote/">>, <<"/lote/{id}", "/item/{id}">> >>,
                  << <<"/lotes/">>, <<"/lotes/{id}">> >>,
                  << <<"/imovel/">>, <<"/imovel/{id}">> >> } }
    \cup { SiteResult("error", pf, <<>>, <<>>) : pf \in {"unknown", "lel.br"} }
    \cup { SiteResult("timeout", "unknown", <<>>, <<>>) }

\* the dict a defaultdict(list) has become: every key with the positions, in
\* the result list, of the results appended to it
MapOf(keys) ==
    [k \in Range(keys) |-> SelectSeq([i \in 1..Len(keys) |-> i], LAMBDA i : keys[i] = k)]

\* group_sites of run_full_analysis: the name of the group of a success
\* (the names are written without their accents)
GroupName(r) ==
    IF r.platform = "lel.br" THEN "Plataforma LEL.BR"
    ELSE IF r.platform = "leilao.br" THEN "Plataforma LEILAO.BR"
    ELSE IF r.platform = "superbid" THEN "Superbid"
    ELSE IF r.platform = "bomvalor" THEN "Bom Valor"
    ELSE IF "/imovel/" \in Range(r.include_paths) THEN "Sites Proprios - Imoveis"
    ELSE IF "/veiculo/" \in Range(r.include_paths) THEN "Sites Proprios - Veiculos"
    ELSE IF "/lote/" \in Range(r.include_paths) THEN "Sites Proprios - Lotes Genericos"
    ELSE IF "/produto/" \in Range(r.include_paths) THEN "Sites Proprios - Produtos"
    ELSE "Sites Proprios - Outros"

GroupSitesKey(r) ==
    IF r.status # "success" THEN "ERRO - Sites com problema" ELSE GroupName(r)

\* group_sites appends every result to its group and writes the name of the
\* group into the result of every success
group_sites ==
    /\ returned
    /\ groups = NoGroups
    /\ groups' = [by |-> "group_sites",
                  map |-> MapOf([i \in 1..Len(results) |-> GroupSitesKey(results[i])])]
    /\ results' = [i \in 1..Len(results) |->
                      IF results[i].status # "success" THEN results[i]
                      ELSE results[i] @@ [grupo |-> GroupName(results[i])]]
    /\ UNCHANGED <<params, permits, pc, fetch, locals, result, returned>>

\* the word _create_pattern_key keeps of a lot URL pattern
SimplifiedLot(p) ==
    IF p \in {"/lote/{id}", "/lotes/{id}"} THEN "lote"
    ELSE IF p = "/item/{id}" THEN "item"
    ELSE IF p = "/imovel/{id}" THEN "imovel"
    ELSE "outro"

\* BatchAnalyzer._create_pattern_key
_create_pattern_key(r) ==
    LET simplified_lot == {SimplifiedLot(p) : p \in Range(r.lot_url_patterns)}
    IN  r.platform \o "::" \o
            (IF simplified_lot = {} THEN "indefinido"
             ELSE Join(SelectSeq(SimplifiedOrder, LAMBDA w : w \in simplified_lot)))

\* BatchAnalyzer.group_by_url_structure
group_by_url_structure ==
    /\ returned
    /\ groups = NoGroups
    /\ groups' = [by |-> "group_by_url_structure",
                  map |-> MapOf([i \in 1..Len(results) |->
                             IF results[i].status # "success" THEN "error"
                             ELSE _create_pattern_key(results[i])])]
    /\ UNCHANGED <<params, permits, pc, fetch, locals, result, returned, results>>

\* ConfigGenerator._group_sites: the key of a CrawlConfig
GroupKey(r) == r.platform \o "::" \o Join(SortedList(PathOrder, r.include_paths))

\* ConfigGenerator.process_analysis_results: one CrawlConfig per result, and
\* every config in the group of its key
_group_sites ==
    /\ returned
    /\ groups = NoGroups
    /\ groups' = [by |-> "_group_sites",
                  map |-> MapOf([i \in 1..Len(results) |-> GroupKey(results[i])])]
    /\ UNCHANGED <<params, permits, pc, fetch, locals, result, returned, results>>

\* lists of up to MaxResults results, each with its position as its name
ResultLists ==
    UNION { [1..n -> SitePool] : n \in 1..MaxResults }

\* a batch has returned a list of results, and no task is left
InitGroup ==
    \E rs \in ResultLists :
        /\ numTargets = 0
        /\ max_concurrent = 1
        /\ max_pages = 1
        /\ permits = 1
        /\ pc = [s \in Sites |-> "absent"]
        /\ fetch = [s \in Sites |-> IdleFetch]
        /\ home_html = [s \in Sites |-> NoHtml]
        /\ final_url = [s \in Sites |-> NoUrl]
        /\ error_msg = [s \in Sites |-> ""]
        /\ nav_links = [s \in Sites |-> <<>>]
        /\ idx = [s \in Sites |-> 0]
        /\ visited = [s \in Sites |-> {}]
        /\ all_lot_candidates = [s \in Sites |-> <<>>]
        /\ page_html = [s \in Sites |-> NoHtml]
        /\ result = [s \in Sites |-> NewResult(s)]
        /\ returned = TRUE
        /\ results = [i \in 1..Len(rs) |-> rs[i] @@ [name |-> i]]
        /\ groups = NoGroups

NextGroup ==
    \/ group_sites
    \/ group_by_url_structure
    \/ _group_sites

SpecGroup == InitGroup /\ [][NextGroup]_vars

\* the key of the group that holds result i
GroupOf(i) == CHOOSE k \in DOMAIN groups.map : i \in Range(groups.map[k])

\* C23: after grouping, the results that are not a success are all in one
\* group, and that group holds no success
C23_ErrorGroup ==
    groups # NoGroups =>
        LET failed == {i \in 1..Len(results) : results[i].status # "success"}
            errKeys == {GroupOf(i) : i \in failed}
        IN  /\ Cardinality(errKeys) <= 1
            /\ \A k \in errKeys : Range(groups.map[k]) \subseteq failed

\* C24: after grouping, two successes are in the same group exactly when
\* they have the same platform and the same set of include paths
C24_GroupKey ==
    groups # NoGroups =>
        \A i, j \in {k \in 1..Len(results) : results[k].status = "success"} :
            GroupOf(i) = GroupOf(j) <=>
                /\ results[i].platform = results[j].platform
                /\ Range(results[i].include_paths) = Range(results[j].include_paths)

\* C25: the step that collects the results takes them as the analyses left
\* them, and the step that groups them leaves the list of results as it was
C25_GroupingReadOnly ==
    [][/\ (~returned /\ returned') => \A t \in Targets : results'[t] = result[t]
       /\ (groups = NoGroups /\ groups' # NoGroups) => results' = results]_vars


====
